---- MODULE Spec2Model ----
(***************************************************************************)
(* DistributedEventLab: the event-ingestion service (server/main.py) and   *)
(* the load generator (generator/main.py).                                 *)
(*                                                                         *)
(* Spec    : the ingestion service -- request handlers, EVENT_QUEUE, the   *)
(*           consumer tasks and the lifespan.                              *)
(* GenSpec : the generator -- run() and its worker tasks.                  *)
(*                                                                         *)
(* Both programs run on a cooperative asyncio scheduler: a task runs       *)
(* without interruption from one await that suspends to the next.  Each    *)
(* action below is one such uninterrupted stretch of code.                 *)
(***************************************************************************)
EXTENDS Integers, Sequences, FiniteSets, TLC

VARIABLES
    \* ---- server/main.py ----
    queue,        \* EVENT_QUEUE._queue: the events resident in the queue, head first
    unfinished,   \* EVENT_QUEUE._unfinished_tasks: puts minus task_done calls
    clock,        \* the wall clock, in half-milliseconds
    lastResp,     \* the HTTP response most recently sent by ingest_events (its
                  \* timestamp is not kept)
    lastReq,      \* the body it answered: its shape, the events it submitted and
                  \* whether each of them was a JSON object
    fillSeq,      \* requests answered so far, while each was a single JSON object and
                  \* no consumer took an event (-1 once that is no longer so)
    phase,        \* position of lifespan(): "init", "serving", "awaiting", "stopped"
    cpc,          \* per consumer task: "none", "new", "get" (waiting in get()), "sleep"
                  \* (it took an event, which it never reads, and has not yet
                  \* marked it done), "done"
    cancelReq,    \* per consumer task: t.cancel() was called on it
    \* ---- generator/main.py ----
    params,       \* the arguments of run(): rps, duration, concurrency, batch, jitter_ms
    rpc,          \* position of run(): "init", "gather", "reported", "raised", "cancelled"
    wpc,          \* per worker task: "none", "new", "post", "sleep", "returned", "raised", "cancelled"
    endT,         \* per worker: end_t, in tenths of a second (-1: float("inf"))
    wakeT,        \* per worker: when its asyncio.sleep ends
    sent,         \* per worker: sent
    iters,        \* per worker: completed loop iterations
    lastPost,     \* how the latest client.post ended: "none", "ok", "error"
    loads,        \* per worker: load_payload calls of its latest iteration
    mono,         \* time.monotonic(), in tenths of a second
    total,        \* the total printed by run() (-1: nothing printed)
    reports,      \* how many times run() printed its total
    interrupt,    \* KeyboardInterrupt was delivered to asyncio.run
    wcancel       \* cancel() was called on the worker tasks

srvVars == <<queue, unfinished, clock, lastResp, lastReq, fillSeq,
             phase, cpc, cancelReq>>
genVars == <<params, rpc, wpc, endT, wakeT, sent, iters, lastPost, loads, mono, total,
             reports, interrupt, wcancel>>
vars == <<srvVars, genVars>>

---------------------------------------------------------------------------
(* Bounds of the model.                                                    *)

\* EVENT_QUEUE's maxsize, scaled down from the 10000 of the source.
Capacity == 2
\* The consumer pool of lifespan(), scaled down from the 4 of the source.
NumConsumers == 2
\* Longest JSON array a request carries.
MaxBatch == 2
\* Length of the sequence of single-event requests that is followed.
MaxRequests == 3
\* Last half-millisecond the wall clock reaches.
MaxClock == 2

\* Largest --concurrency a run is started with.
MaxConcurrency == 2
\* Loop iterations a worker performs in one behaviour.
MaxIters == 2
\* Last tenth of a second time.monotonic() reaches.
MaxTime == 2

Consumers == 1..NumConsumers
Workers == 1..MaxConcurrency

---------------------------------------------------------------------------
(* JSON values.  A parsed value is tagged with its Python type; a dict is  *)
(* a function from its keys to its values.                                 *)

Obj(d) == [t |-> "dict", v |-> d]
Num(n) == [t |-> "int", v |-> n]
Arr(s) == [t |-> "list", v |-> s]
\* A body request.json() cannot parse.
Malformed == [t |-> "malformed", v |-> 0]

isinstance(x, ty) == x.t = ty

\* The dicts callers post: one supplies its own _source, the other its own
\* _recieved_at (a value no clock reading equals); each lacks the other field.
CallerDicts ==
    { ("event_type" :> "page_view") @@ ("_source" :> "mine"),
      ("event_type" :> "click") @@ ("_recieved_at" :> -1) }

\* The elements of a posted array: objects and a number.
Elements == {Obj(d) : d \in CallerDicts} \cup {Num(7)}

SeqsUpTo(S, n) == UNION {[1..k -> S] : k \in 0..n}

\* Every body a client sends: malformed, a scalar, an object, an array.
Bodies ==
    {Malformed, Num(7)} \cup {Obj(d) : d \in CallerDicts}
        \cup {Arr(s) : s \in SeqsUpTo(Elements, MaxBatch)}

---------------------------------------------------------------------------
(* server/main.py                                                          *)

\* now_z(): the clock truncated to milliseconds.
now_z == clock \div 2

\* Faulty variant: the key is assigned whether or not the dict has it.
setdefault_overwrite(d, k, v) ==
    [x \in DOMAIN d \cup {k} |-> IF x = k THEN v ELSE d[x]]

\* dict.setdefault(k, v): d[k] is set only when d has no key k.
setdefault(d, k, v) == IF k \in DOMAIN d THEN d ELSE d @@ (k :> v)

\* Faulty variant: the queue counts as full one item too late.
full_late(q) == Len(q) > Capacity

\* asyncio.Queue.full(): maxsize > 0 and qsize() >= maxsize.
full(q) == Len(q) >= Capacity

\* Faulty variant: the item is put at the head of the queue.
put_nowait_front(q, un, item) ==
    IF full(q)
    THEN [raised |-> TRUE, queue |-> q, unfinished |-> un]
    ELSE [raised |-> FALSE, queue |-> <<item>> \o q, unfinished |-> un + 1]

\* Faulty variant: the item is put without asking whether the queue is full.
put_nowait_unchecked(q, un, item) ==
    [raised |-> FALSE, queue |-> Append(q, item), unfinished |-> un + 1]

\* asyncio.Queue.put_nowait(item): raises QueueFull on a full queue, else
\* appends the item and counts it as unfinished.
put_nowait(q, un, item) ==
    IF full(q)
    THEN [raised |-> TRUE, queue |-> q, unfinished |-> un]
    ELSE [raised |-> FALSE, queue |-> Append(q, item), unfinished |-> un + 1]

\* Lines 50-52: the metadata defaults of one event.
add_metadata(event, now) ==
    setdefault(setdefault(event, "_recieved_at", now), "_source", "events-generator")

\* Lines 48-58: the for loop over events, from its i-th element on.  The result
\* names how the loop ended ("done", or "AttributeError" when an element has no
\* setdefault), the accepted count and the queue it leaves.
RECURSIVE ingest_loop(_, _, _, _, _, _)
ingest_loop(events, i, q, un, accepted, now) ==
    IF i > Len(events)
    THEN [end |-> "done", accepted |-> accepted, queue |-> q, unfinished |-> un]
    ELSE IF ~isinstance(events[i], "dict")
    THEN [end |-> "AttributeError", accepted |-> accepted, queue |-> q, unfinished |-> un]
    ELSE LET p == put_nowait(q, un, add_metadata(events[i].v, now))
         IN  IF p.raised
             THEN [end |-> "done", accepted |-> accepted, queue |-> q, unfinished |-> un]
             ELSE ingest_loop(events, i + 1, p.queue, p.unfinished, accepted + 1, now)

\* Faulty variant: a list body is wrapped in a list like a dict body.
normalize_wrap(body) == <<body>>

\* Lines 39-46: the list of events of a parsed body.
normalize(body) ==
    IF isinstance(body, "dict") THEN <<body>> ELSE body.v

\* No response sent yet.
NoResp == [status |-> 0, accepted |-> 0, queued_size |-> 0, timestamp |-> 0, detail |-> FALSE]

\* No request answered yet.
NoReq == [shape |-> "none", n |-> 0, objects |-> FALSE]

\* Whether every event a body submits is a JSON object.
all_objects(body) ==
    \/ isinstance(body, "dict")
    \/ /\ isinstance(body, "list")
       /\ \A i \in 1..Len(body.v) : isinstance(body.v[i], "dict")

\* len(events): the events a body submits.
submitted(body) ==
    IF isinstance(body, "dict") THEN 1
    ELSE IF isinstance(body, "list") THEN Len(body.v) ELSE 0

\* Faulty variant: a batch cut short by a full queue is answered 429.
ingest_events_429(body, q, un, now) ==
    IF isinstance(body, "malformed") \/ ~(isinstance(body, "dict") \/ isinstance(body, "list"))
    THEN [resp |-> [status |-> 400, accepted |-> 0, queued_size |-> 0, timestamp |-> 0,
                    detail |-> TRUE],
          queue |-> q, unfinished |-> un]
    ELSE LET r == ingest_loop(normalize(body), 1, q, un, 0, now)
         IN  [resp |-> [status |-> IF r.end = "AttributeError" THEN 500
                                   ELSE IF r.accepted < submitted(body) THEN 429
                                   ELSE 200,
                        accepted |-> r.accepted, queued_size |-> Len(r.queue),
                        timestamp |-> now, detail |-> FALSE],
              queue |-> r.queue, unfinished |-> r.unfinished]

\* Faulty variant: queued_size reports the pending count, not qsize().
ingest_events_pending(body, q, un, now) ==
    IF isinstance(body, "malformed") \/ ~(isinstance(body, "dict") \/ isinstance(body, "list"))
    THEN [resp |-> [status |-> 400, accepted |-> 0, queued_size |-> 0, timestamp |-> 0,
                    detail |-> TRUE],
          queue |-> q, unfinished |-> un]
    ELSE LET r == ingest_loop(normalize(body), 1, q, un, 0, now)
         IN  IF r.end = "AttributeError"
             THEN [resp |-> [status |-> 500, accepted |-> 0, queued_size |-> 0,
                             timestamp |-> 0, detail |-> FALSE],
                   queue |-> r.queue, unfinished |-> r.unfinished]
             ELSE [resp |-> [status |-> 200, accepted |-> r.accepted,
                             queued_size |-> r.unfinished, timestamp |-> now,
                             detail |-> FALSE],
                   queue |-> r.queue, unfinished |-> r.unfinished]

\* ingest_events from the return of request.json() to the response: the
\* response sent and the queue left behind.
ingest_events(body, q, un, now) ==
    IF isinstance(body, "malformed") \/ ~(isinstance(body, "dict") \/ isinstance(body, "list"))
    THEN [resp |-> [status |-> 400, accepted |-> 0, queued_size |-> 0, timestamp |-> 0,
                    detail |-> TRUE],
          queue |-> q, unfinished |-> un]
    ELSE LET r == ingest_loop(normalize(body), 1, q, un, 0, now)
         IN  IF r.end = "AttributeError"
             THEN [resp |-> [status |-> 500, accepted |-> 0, queued_size |-> 0,
                             timestamp |-> 0, detail |-> FALSE],
                   queue |-> r.queue, unfinished |-> r.unfinished]
             ELSE [resp |-> [status |-> 200, accepted |-> r.accepted,
                             queued_size |-> Len(r.queue), timestamp |-> now,
                             detail |-> FALSE],
                   queue |-> r.queue, unfinished |-> r.unfinished]

SrvInit ==
    /\ queue = <<>>
    /\ unfinished = 0
    /\ clock = 0
    /\ lastResp = NoResp
    /\ lastReq = NoReq
    /\ fillSeq = 0
    /\ phase = "init"
    /\ cpc = [c \in Consumers |-> "none"]
    /\ cancelReq = [c \in Consumers |-> FALSE]

\* The wall clock advances (followed while requests are served, which alone
\* read it).
Tick ==
    /\ clock < MaxClock
    /\ phase \in {"init", "serving"}
    /\ clock' = clock + 1
    /\ UNCHANGED <<queue, unfinished, lastResp, lastReq, fillSeq,
                   phase, cpc, cancelReq, genVars>>

\* One POST /events.  The handler suspends only in `await request.json()`,
\* before it reads or writes anything; from there it runs to its response
\* without suspending, so a request is one step, taken when its body is read.
\* The handler does not depend on lifespan(): an ASGI caller that does not run
\* the lifespan protocol has its requests served with no consumer task.
\* Requests are followed until the shutdown begins.
Handle(body) ==
    /\ phase \in {"init", "serving"}
    /\ LET r == ingest_events(body, queue, unfinished, now_z)
       IN  /\ queue' = r.queue
           /\ unfinished' = r.unfinished
           /\ lastResp' = [r.resp EXCEPT !.timestamp = 0]
           /\ lastReq' = [shape |-> body.t, n |-> submitted(body),
                          objects |-> all_objects(body)]
    /\ fillSeq' = IF fillSeq >= 0 /\ fillSeq < MaxRequests /\ isinstance(body, "dict")
                  THEN fillSeq + 1 ELSE -1
    /\ UNCHANGED <<clock, phase, cpc, cancelReq, genVars>>

HandleAny == \E body \in Bodies : Handle(body)

\* lifespan() up to its yield: the consumer tasks are created.
Startup ==
    /\ phase = "init"
    /\ phase' = "serving"
    /\ cpc' = [c \in Consumers |-> "new"]
    /\ UNCHANGED <<queue, unfinished, clock, lastResp, lastReq, fillSeq,
                   cancelReq, genVars>>

\* Faulty variant: get() takes the event enqueued last.
get_or_wait_last(c, q) ==
    IF q # <<>>
    THEN /\ queue' = SubSeq(q, 1, Len(q) - 1)
         /\ cpc' = [cpc EXCEPT ![c] = "sleep"]
         /\ fillSeq' = -1
    ELSE /\ queue' = q
         /\ cpc' = [cpc EXCEPT ![c] = "get"]
         /\ fillSeq' = fillSeq

\* Faulty variant: get() waits even when the queue holds an event.
get_or_wait_idle(c, q) ==
    /\ queue' = q
    /\ cpc' = [cpc EXCEPT ![c] = "get"]
    /\ fillSeq' = fillSeq

\* `await EVENT_QUEUE.get()` reached with the queue as it is: the head is taken
\* without suspending when there is one, else the consumer waits for a put.
get_or_wait(c, q) ==
    IF q # <<>>
    THEN /\ queue' = Tail(q)
         /\ cpc' = [cpc EXCEPT ![c] = "sleep"]
         /\ fillSeq' = -1
    ELSE /\ queue' = q
         /\ cpc' = [cpc EXCEPT ![c] = "get"]
         /\ fillSeq' = fillSeq

\* A consumer task runs for the first time and reaches its first get().
ConsumerRun(c) ==
    /\ cpc[c] = "new"
    /\ ~cancelReq[c]
    /\ get_or_wait(c, queue)
    /\ UNCHANGED <<unfinished, clock, lastResp, lastReq, phase, cancelReq, genVars>>

\* A consumer waiting in get() is woken by a put and takes the head.
ConsumerWake(c) ==
    /\ cpc[c] = "get"
    /\ ~cancelReq[c]
    /\ queue # <<>>
    /\ get_or_wait(c, queue)
    /\ UNCHANGED <<unfinished, clock, lastResp, lastReq, phase, cancelReq, genVars>>

\* asyncio.sleep(0.001) ends: task_done(), then the next get().
ConsumerResume(c) ==
    /\ cpc[c] = "sleep"
    /\ ~cancelReq[c]
    /\ unfinished' = unfinished - 1
    /\ IF queue # <<>>
       THEN get_or_wait(c, queue)
       ELSE /\ queue' = queue
            /\ cpc' = [cpc EXCEPT ![c] = "get"]
            /\ fillSeq' = fillSeq
    /\ UNCHANGED <<clock, lastResp, lastReq, phase, cancelReq, genVars>>

\* lifespan() after its yield, lines 83-84: cancel() is called on every consumer
\* task, then gather() is awaited.
Shutdown ==
    /\ phase = "serving"
    /\ phase' = "awaiting"
    /\ cancelReq' = [c \in Consumers |-> TRUE]
    /\ UNCHANGED <<queue, unfinished, clock, lastResp, lastReq, fillSeq,
                   cpc, genVars>>

\* A cancelled consumer task is scheduled: CancelledError is raised at its
\* await (or before its first step) and ends the task; an event it holds is
\* never marked done.
ConsumerCancelled(c) ==
    /\ cancelReq[c]
    /\ cpc[c] \in {"new", "get", "sleep"}
    /\ cpc' = [cpc EXCEPT ![c] = "done"]
    /\ UNCHANGED <<queue, unfinished, clock, lastResp, lastReq, fillSeq,
                   phase, cancelReq, genVars>>

\* Line 85: gather(..., return_exceptions=True) returns once every consumer
\* task has ended, and lifespan() returns.
ShutdownReturn ==
    /\ phase = "awaiting"
    /\ \A c \in Consumers : cpc[c] = "done"
    /\ phase' = "stopped"
    /\ UNCHANGED <<queue, unfinished, clock, lastResp, lastReq, fillSeq,
                   cpc, cancelReq, genVars>>

---------------------------------------------------------------------------
(* generator/main.py.  Time is counted in tenths of a second.              *)

Max(a, b) == IF a >= b THEN a ELSE b

\* The arguments a run is started with.
Params ==
    [rps : {0, 10}, duration : {0, 2}, concurrency : -1..MaxConcurrency,
     batch : {1, 2}, jitter_ms : {0, 100}]

\* Line 107: max(rps / max(concurrency, 1), 0.0), as the fraction num/den.
per_worker_rps(rps, concurrency) ==
    [num |-> Max(rps, 0), den |-> Max(concurrency, 1)]

\* Line 73: 1.0 / rps if rps > 0 else 0, in tenths of a second.
interval(rate) == IF rate.num > 0 THEN (10 * rate.den) \div rate.num ELSE 0

\* Line 74: time.monotonic() + duration if duration > 0 else float("inf").
end_t(now, duration) == IF duration > 0 THEN now + duration ELSE -1

\* Line 77: time.monotonic() < end_t.
before(now, e) == e = -1 \/ now < e

\* Lines 78-81: load_payload is called once, and batch more times when batch > 1.
payload_calls(batch) == IF batch > 1 THEN 1 + batch ELSE 1

\* Lines 78-81 and 84: the body posted, one object or a list of batch objects.
request_body(batch) ==
    IF batch > 1 THEN [shape |-> "list", n |-> batch] ELSE [shape |-> "dict", n |-> 1]

\* Lines 108-111: range(concurrency), the workers run() creates.
Spawned(concurrency) == {w \in Workers : w <= concurrency}

Live(w) == wpc[w] \in {"new", "post", "sleep"}

RECURSIVE SumOver(_, _)
SumOver(f, S) ==
    IF S = {} THEN 0 ELSE LET x == CHOOSE y \in S : TRUE IN f[x] + SumOver(f, S \ {x})

GenIdle ==
    /\ rpc = "init"
    /\ wpc = [w \in Workers |-> "none"]
    /\ endT = [w \in Workers |-> 0]
    /\ wakeT = [w \in Workers |-> 0]
    /\ sent = [w \in Workers |-> 0]
    /\ iters = [w \in Workers |-> 0]
    /\ lastPost = "none"
    /\ loads = [w \in Workers |-> 0]
    /\ mono = 0
    /\ total = -1
    /\ reports = 0
    /\ interrupt = FALSE
    /\ wcancel = FALSE

\* time.monotonic() advances.  Time is followed from the start of run() and
\* while its workers run; the workers take their first step as soon as run()
\* awaits gather(), before a tenth of a second has passed; a deadline that is
\* set is always reached.
GenTick ==
    /\ rpc = "gather"
    /\ ~wcancel
    /\ \A w \in Workers : wpc[w] # "new"
    /\ \/ mono < MaxTime
       \/ \E w \in Workers : Live(w) /\ endT[w] # -1 /\ mono < endT[w]
    /\ mono' = mono + 1
    /\ UNCHANGED <<params, rpc, wpc, endT, wakeT, sent, iters, lastPost, loads, total,
                   reports, interrupt, wcancel, srvVars>>

\* Lines 113-115: the total is summed and printed, and run() returns.
report(counts) ==
    /\ total' = counts
    /\ reports' = reports + 1
    /\ rpc' = "reported"

\* run() from its start to `await asyncio.gather(*tasks)`.  gather() of no task
\* is already done, so with no worker run() goes on to print without suspending.
RunStart ==
    /\ rpc = "init"
    /\ wpc' = [w \in Workers |->
                 IF w \in Spawned(params.concurrency) THEN "new" ELSE "none"]
    /\ IF Spawned(params.concurrency) = {}
       THEN report(0)
       ELSE /\ rpc' = "gather"
            /\ UNCHANGED <<total, reports>>
    /\ UNCHANGED <<params, endT, wakeT, sent, iters, lastPost, loads, mono,
                   interrupt, wcancel, srvVars>>

\* A worker runs from its start, or from the end of its sleep, through the
\* while test and the payload loading to `await client.post`; it returns when
\* the deadline has passed and raises when load_payload raises.
WorkerLoop(w, payload_ok) ==
    /\ ~wcancel
    /\ \/ wpc[w] = "new"
       \/ wpc[w] = "sleep" /\ mono >= wakeT[w]
    /\ LET e == IF wpc[w] = "new" THEN end_t(mono, params.duration) ELSE endT[w]
       IN  /\ endT' = [endT EXCEPT ![w] = e]
           /\ IF ~before(mono, e)
              THEN /\ payload_ok
                   /\ wpc' = [wpc EXCEPT ![w] = "returned"]
                   /\ loads' = loads
              ELSE /\ iters[w] < MaxIters
                   /\ loads' = [loads EXCEPT ![w] = payload_calls(params.batch)]
                   /\ wpc' = [wpc EXCEPT ![w] = IF payload_ok THEN "post" ELSE "raised"]
    /\ UNCHANGED <<params, rpc, wakeT, sent, iters, lastPost, mono, total, reports,
                   interrupt, wcancel, srvVars>>

\* Lines 94-97: the jitter values random.randint(0, jitter_ms) / 1000.0 can take.
jitters(jitter_ms) == IF jitter_ms > 0 THEN 0..(jitter_ms \div 100) ELSE {0}

\* Faulty variant: an iteration whose client.post raised is not counted.
WorkerPostDone_drop(w, post_ok) ==
    /\ ~wcancel
    /\ wpc[w] = "post"
    /\ sent' = [sent EXCEPT ![w] = IF post_ok THEN @ + params.batch ELSE @]
    /\ iters' = [iters EXCEPT ![w] = @ + 1]
    /\ lastPost' = (IF post_ok THEN "ok" ELSE "error")
    /\ wakeT' = [wakeT EXCEPT ![w] = mono]
    /\ wpc' = [wpc EXCEPT ![w] = "sleep"]
    /\ UNCHANGED <<params, rpc, endT, loads, mono, total, reports, interrupt,
                   wcancel, srvVars>>

\* client.post returns or raises (lines 83-87); the iteration is counted and
\* the worker goes to sleep (lines 89-99).
WorkerPostDone(w, post_ok) ==
    /\ ~wcancel
    /\ wpc[w] = "post"
    /\ sent' = [sent EXCEPT ![w] = @ + params.batch]
    /\ iters' = [iters EXCEPT ![w] = @ + 1]
    /\ lastPost' = (IF post_ok THEN "ok" ELSE "error")
    /\ LET iv == interval(per_worker_rps(params.rps, params.concurrency))
       IN  IF iv > 0
           THEN \E j \in jitters(params.jitter_ms) :
                    wakeT' = [wakeT EXCEPT ![w] = mono + Max(0, iv + j)]
           ELSE wakeT' = [wakeT EXCEPT ![w] = mono]
    /\ wpc' = [wpc EXCEPT ![w] = "sleep"]
    /\ UNCHANGED <<params, rpc, endT, loads, mono, total, reports, interrupt,
                   wcancel, srvVars>>

\* Lines 112-115: gather() delivers the counts once every worker has returned.
RunJoin ==
    /\ rpc = "gather"
    /\ ~interrupt
    /\ \A w \in Spawned(params.concurrency) : wpc[w] = "returned"
    /\ report(SumOver(sent, Spawned(params.concurrency)))
    /\ UNCHANGED <<params, wpc, endT, wakeT, sent, iters, lastPost, loads, mono,
                   interrupt, wcancel, srvVars>>

\* Line 112: gather() without return_exceptions propagates the first exception
\* of a worker to run() at once; the other workers are not cancelled and go on.
\* The event loop runs its ready tasks in order, so every worker has taken its
\* first step before run() is resumed.
RunRaise ==
    /\ rpc = "gather"
    /\ ~interrupt
    /\ \E w \in Spawned(params.concurrency) : wpc[w] = "raised"
    /\ \A w \in Spawned(params.concurrency) : wpc[w] # "new"
    /\ rpc' = "raised"
    /\ UNCHANGED <<params, wpc, endT, wakeT, sent, iters, lastPost, loads, mono, total,
                   reports, interrupt, wcancel, srvVars>>

\* Lines 129-132: KeyboardInterrupt; asyncio.run cancels run(), whose gather()
\* cancels every worker.
Interrupt ==
    /\ rpc = "gather"
    /\ ~interrupt
    /\ interrupt' = TRUE
    /\ wcancel' = TRUE
    /\ UNCHANGED <<params, rpc, wpc, endT, wakeT, sent, iters, lastPost, loads, mono,
                   total, reports, srvVars>>

\* asyncio.run, after run() has raised: the tasks still alive are cancelled.
LoopClose ==
    /\ rpc = "raised"
    /\ ~wcancel
    /\ wcancel' = TRUE
    /\ UNCHANGED <<params, rpc, wpc, endT, wakeT, sent, iters, lastPost, loads, mono,
                   total, reports, interrupt, srvVars>>

\* The cancelled workers are scheduled: CancelledError ends each at its await.
\* The event loop runs them one after the other, in the order cancel() was
\* called on them, and nothing else runs in between.
WorkersCancelled ==
    /\ wcancel
    /\ \E w \in Workers : Live(w)
    /\ wpc' = [w \in Workers |-> IF Live(w) THEN "cancelled" ELSE wpc[w]]
    /\ UNCHANGED <<params, rpc, endT, wakeT, sent, iters, lastPost, loads, mono, total,
                   reports, interrupt, wcancel, srvVars>>

\* The cancelled gather() ends once every worker has ended, and run() raises
\* CancelledError.
RunCancelled ==
    /\ rpc = "gather"
    /\ interrupt
    /\ \A w \in Spawned(params.concurrency) : ~Live(w)
    /\ rpc' = "cancelled"
    /\ UNCHANGED <<params, wpc, endT, wakeT, sent, iters, lastPost, loads, mono, total,
                   reports, interrupt, wcancel, srvVars>>

---------------------------------------------------------------------------
(* Specifications.                                                         *)

\* The ingestion service; the generator stands idle with its default arguments.
Init ==
    /\ SrvInit
    /\ params = [rps |-> 10, duration |-> 2, concurrency |-> 1, batch |-> 1,
                 jitter_ms |-> 0]
    /\ GenIdle

Next ==
    \/ Tick
    \/ HandleAny
    \/ Startup
    \/ Shutdown
    \/ ShutdownReturn
    \/ \E c \in Consumers : ConsumerRun(c)
    \/ \E c \in Consumers : ConsumerWake(c)
    \/ \E c \in Consumers : ConsumerResume(c)
    \/ \E c \in Consumers : ConsumerCancelled(c)

Spec == Init /\ [][Next]_vars

\* The generator, started with any arguments; the service stands idle.
GenInit ==
    /\ SrvInit
    /\ params \in Params
    /\ GenIdle

GenNext ==
    \/ GenTick
    \/ RunStart
    \/ RunJoin
    \/ RunRaise
    \/ Interrupt
    \/ LoopClose
    \/ RunCancelled
    \/ \E w \in Workers, ok \in BOOLEAN : WorkerLoop(w, ok)
    \/ \E w \in Workers, ok \in BOOLEAN : WorkerPostDone(w, ok)
    \/ WorkersCancelled

GenSpec == GenInit /\ [][GenNext]_vars

\* The service while it runs: no shutdown is asked for, lifespan() starts the
\* consumers, and the event loop runs every consumer task that is ready (each
\* sleep of line 71 ends).  Requests come as the clients please.  The drain
\* does not read the clock, which is left where it is.
SrvRunNext ==
    \/ HandleAny
    \/ Startup
    \/ \E c \in Consumers : ConsumerRun(c)
    \/ \E c \in Consumers : ConsumerWake(c)
    \/ \E c \in Consumers : ConsumerResume(c)

SrvFairness ==
    /\ WF_vars(Startup)
    /\ \A c \in Consumers : WF_vars(ConsumerRun(c))
    /\ \A c \in Consumers : WF_vars(ConsumerWake(c))
    /\ \A c \in Consumers : WF_vars(ConsumerResume(c))

SrvFairSpec == Init /\ [][SrvRunNext]_vars /\ SrvFairness

\* The generator left to run to its end: nobody interrupts it, time passes, the
\* event loop runs every task that is ready, and every client.post returns or
\* raises within its timeout (line 75).
GenRunNext ==
    \/ GenTick
    \/ RunStart
    \/ RunJoin
    \/ RunRaise
    \/ LoopClose
    \/ WorkersCancelled
    \/ \E w \in Workers, ok \in BOOLEAN : WorkerLoop(w, ok)
    \/ \E w \in Workers, ok \in BOOLEAN : WorkerPostDone(w, ok)

GenFairness ==
    /\ WF_vars(GenTick)
    /\ WF_vars(RunStart)
    /\ WF_vars(RunJoin)
    /\ WF_vars(RunRaise)
    /\ WF_vars(LoopClose)
    /\ WF_vars(WorkersCancelled)
    /\ \A w \in Workers : WF_vars(\E ok \in BOOLEAN : WorkerLoop(w, ok))
    /\ \A w \in Workers : WF_vars(\E ok \in BOOLEAN : WorkerPostDone(w, ok))

GenFairSpec == GenInit /\ [][GenRunNext]_vars /\ GenFairness

---------------------------------------------------------------------------
(* Properties of the ingestion service (checked under Spec).               *)

Min(a, b) == IF a <= b THEN a ELSE b

\* The bodies that are a single object or an array of objects.
ObjectBodies == {b \in Bodies : all_objects(b)}

\* The last request answered was a single object or an array of objects.
LastWellFormed == lastReq.shape \in {"dict", "list"} /\ lastReq.objects

\* The last request answered was anything else.
LastRejected == lastReq.shape # "none" /\ ~LastWellFormed

\* Consumers that took an event and have not yet marked it done.
Holding == {c \in Consumers : cpc[c] = "sleep"}

\* C1 -- Queue bound: in every reachable state 0 <= size <= capacity, whatever
\* the interleaving of requests and consumers; a put on a full queue fails and
\* leaves the queue and its pending count unchanged, a put on a queue that is
\* not full adds one item.
C1_QueueBound ==
    /\ Len(queue) >= 0
    /\ Len(queue) <= Capacity
    /\ \A d \in CallerDicts :
           LET p == put_nowait(queue, unfinished, d)
           IN  IF Len(queue) = Capacity
               THEN p.raised /\ p.queue = queue /\ p.unfinished = unfinished
               ELSE ~p.raised /\ Len(p.queue) = Len(queue) + 1

\* C1 witness: the queue is full, the last request had events refused, and a
\* consumer has removed an event.
C1_Witness ==
    /\ Len(queue) = Capacity
    /\ lastResp.status = 200
    /\ lastResp.accepted < lastReq.n
    /\ Holding # {}

\* What lines 50-52 leave in an event: the caller's fields as posted, and each
\* metadata field the caller did not supply at its default.
Defaulted(d, now) ==
    [k \in DOMAIN d \cup {"_recieved_at", "_source"} |->
        IF k \in DOMAIN d THEN d[k]
        ELSE IF k = "_recieved_at" THEN now ELSE "events-generator"]

\* C2 -- Stop at first rejection: from every reachable state with k free slots,
\* a POST of n event objects leaves the queue extended by exactly the first
\* min(n, k) events, in submission order, and is answered accepted = min(n, k).
C2_StopAtFirstRejection ==
    \A b \in ObjectBodies :
        LET events == normalize(b)
            k == Capacity - Len(queue)
            m == Min(Len(events), k)
            r == ingest_events(b, queue, unfinished, now_z)
        IN  /\ r.resp.status = 200
            /\ r.resp.accepted = m
            /\ r.queue = queue \o [i \in 1..m |-> Defaulted(events[i].v, now_z)]
            /\ r.unfinished = unfinished + m
            /\ m < Len(events) => r.resp.queued_size = Capacity

\* C2 witness: a batch of more events than free slots was answered with only
\* its first event accepted and the queue at capacity.
C2_Witness ==
    /\ lastReq.shape = "list"
    /\ lastReq.objects
    /\ lastReq.n = MaxBatch
    /\ lastResp.status = 200
    /\ lastResp.accepted = 1
    /\ lastResp.queued_size = Capacity
    /\ Len(queue) = Capacity

\* C3 -- Sequential fill with no consumer: while every request so far was a
\* single-event POST and no consumer took an event, the i-th request is
\* answered accepted = 1, queued_size = i for i <= capacity, and accepted = 0,
\* queued_size = capacity after that.
C3_SequentialFill ==
    fillSeq >= 1 =>
        /\ lastResp.status = 200
        /\ lastResp.accepted = (IF fillSeq <= Capacity THEN 1 ELSE 0)
        /\ lastResp.queued_size = Min(fillSeq, Capacity)
        /\ Len(queue) = Min(fillSeq, Capacity)

\* C3 witness: the POST after the one that filled the queue was refused.
C3_Witness ==
    /\ fillSeq = Capacity + 1
    /\ lastResp.accepted = 0
    /\ lastResp.queued_size = Capacity

\* C4 -- Input rejection (the claim as stated): every request that is not a
\* single object or an array of objects is answered 400 with a detail field.
C4_InputRejection ==
    LastRejected => lastResp.status = 400 /\ lastResp.detail

\* C5 -- No queue interaction on rejected input (the claim as stated): a step
\* that enqueues an event answers a request that is a single object or an
\* array of objects; the other requests leave the queue and the pending count
\* as they were.
C5_NoQueueInteraction ==
    [][(Len(queue') > Len(queue) \/ unfinished' > unfinished) => LastWellFormed']_vars

\* C6 -- Queue-full is never an error response: a request that is a single
\* object or an array of objects is answered 200 with accepted <= submitted,
\* and accepted < submitted only when the queue was left full.
C6_NeverAnError ==
    LastWellFormed =>
        /\ lastResp.status = 200
        /\ lastResp.accepted >= 0
        /\ lastResp.accepted <= lastReq.n
        /\ lastResp.queued_size <= Capacity
        /\ lastResp.accepted < lastReq.n => lastResp.queued_size = Capacity

\* C6 witness: a well-formed batch was answered 200 with fewer events accepted
\* than submitted.
C6_Witness ==
    /\ LastWellFormed
    /\ lastResp.status = 200
    /\ lastResp.accepted < lastReq.n

\* C7 -- Metadata defaulting: every event resident in the queue carries both
\* metadata fields, holds the caller's value in every field the caller
\* supplied and the default (the time of its request, the generator's tag) in
\* the others, and is left as it is by a second defaulting at any later time.
C7_MetadataDefaulting ==
    \A i \in 1..Len(queue) :
        /\ {"_recieved_at", "_source"} \subseteq DOMAIN queue[i]
        /\ \E d \in CallerDicts :
               /\ \A k \in DOMAIN d : queue[i][k] = d[k]
               /\ \E t \in 0..now_z : queue[i] = Defaulted(d, t)
        /\ \A t \in 0..(MaxClock + 1) : add_metadata(queue[i], t) = queue[i]

\* C7 witness: the queue holds an event whose caller supplied _source and one
\* whose caller supplied _recieved_at, each with its other field defaulted.
C7_Witness ==
    /\ \E i \in 1..Len(queue) :
           queue[i]["_source"] = "mine" /\ queue[i]["_recieved_at"] = 1
    /\ \E i \in 1..Len(queue) :
           queue[i]["_source"] = "events-generator" /\ queue[i]["_recieved_at"] = -1

\* C8 -- Single object vs one-element array: from every reachable state,
\* POSTing an object x and POSTing [x] give the same response and the same
\* queue, with accepted = 1 when a slot is free.
C8_SingleVsArray ==
    \A d \in CallerDicts :
        LET one == ingest_events(Obj(d), queue, unfinished, now_z)
            arr == ingest_events(Arr(<<Obj(d)>>), queue, unfinished, now_z)
        IN  /\ one = arr
            /\ Len(queue) < Capacity => arr.resp.accepted = 1

\* C8 witness: a one-element array was accepted into the last free slot.
C8_Witness ==
    /\ lastReq.shape = "list"
    /\ lastReq.n = 1
    /\ lastReq.objects
    /\ lastResp.status = 200
    /\ lastResp.accepted = 1
    /\ lastResp.queued_size = Capacity

---------------------------------------------------------------------------
(* Properties of the generator (checked under GenSpec).                    *)

\* C9 -- Join barrier (the claim as stated): run() has completed, by returning
\* or by raising, only when none of its workers is still running; the total is
\* printed at most once and is the sum of the workers' sent counts.
C9_JoinBarrier ==
    /\ rpc \in {"reported", "raised", "cancelled"} => \A w \in Workers : ~Live(w)
    /\ reports <= 1
    /\ rpc = "reported" => total = SumOver(sent, Spawned(params.concurrency))

\* C10 -- Unbounded run (the claim as stated): with duration <= 0 no worker
\* returns and run() never reaches its reporting step.
C10_UnboundedRun ==
    params.duration <= 0 =>
        /\ \A w \in Workers : wpc[w] # "returned"
        /\ rpc # "reported"

\* C11 -- Transport failure is swallowed and counted: the step that ends a
\* send, whether client.post returned or raised, leaves the worker running,
\* asks for no new payload and makes no second send, adds batch to the worker's
\* sent and takes it to its pacing sleep; in every state a worker's sent is
\* batch times the iterations it has completed.
C11_FailureCounted ==
    /\ [](\A w \in Workers : sent[w] = params.batch * iters[w])
    /\ [][\A w \in Workers :
             (wpc[w] = "post" /\ wpc'[w] # "post" /\ ~wcancel) =>
                 /\ wpc'[w] = "sleep"
                 /\ iters'[w] = iters[w] + 1
                 /\ sent'[w] = sent[w] + params.batch
                 /\ loads'[w] = loads[w]]_vars

\* C11 witness: the only worker's first send failed, was counted as a batch of
\* two, and the worker has gone on to its next send.
C11_Witness ==
    /\ params.concurrency = 1
    /\ params.batch > 1
    /\ lastPost = "error"
    /\ iters[1] = 1
    /\ sent[1] = params.batch
    /\ wpc[1] = "post"

\* C13 -- Bounded run terminates (the claim as stated): with duration > 0 and
\* every send returning or failing in time, a worker starts an iteration only
\* while now < start + duration, returns only once its deadline has passed,
\* and the run eventually reports its total.
C13_BoundedRunTerminates ==
    /\ [][\A w \in Workers :
             /\ (wpc'[w] = "post" /\ wpc[w] # "post") => before(mono, endT'[w])
             /\ (wpc'[w] = "returned" /\ wpc[w] # "returned") =>
                    ~before(mono, endT'[w])]_vars
    /\ (params.duration > 0 => <>(rpc = "reported"))

\* C14 -- Rate split and non-positive concurrency (the claim as stated): each
\* worker's rate is rps / concurrency, floored at 0, and a run started with
\* concurrency <= 0 gets the rate and the workers of a run with concurrency 1.
C14_RateSplit ==
    LET rate == per_worker_rps(params.rps, params.concurrency)
        as_one == [params EXCEPT !.concurrency = 1]
    IN  /\ rate.num >= 0
        /\ params.concurrency > 0 =>
               rate.num * params.concurrency = Max(params.rps, 0) * rate.den
        /\ params.concurrency <= 0 =>
               /\ rate = per_worker_rps(as_one.rps, as_one.concurrency)
               /\ rpc # "init" =>
                      {w \in Workers : wpc[w] # "none"} = Spawned(as_one.concurrency)

\* C15 -- Payloads per iteration (the claim as stated): a worker that is
\* sending has called load_payload exactly batch times in this iteration, one
\* call per item; the body is one object when batch is 1 and a list of batch
\* objects otherwise, so it holds as many events as the iteration adds to sent.
C15_PayloadsPerIteration ==
    \A w \in Workers :
        wpc[w] = "post" =>
            /\ loads[w] = params.batch
            /\ request_body(params.batch).shape =
                   (IF params.batch = 1 THEN "dict" ELSE "list")
            /\ request_body(params.batch).n = params.batch

---------------------------------------------------------------------------
(* Shutdown and accounting of the ingestion service (checked under Spec).  *)

\* Events that were removed from the queue and not marked done.
Unmarked == unfinished - Len(queue)

\* C12 -- Shutdown ordering and completeness (the claim as stated): every
\* consumer has been sent its cancellation before the tasks are awaited, and
\* when shutdown has returned every consumer task has ended and no event is
\* left that a consumer removed and did not mark done.
C12_ShutdownComplete ==
    /\ phase \in {"awaiting", "stopped"} => \A c \in Consumers : cancelReq[c]
    /\ phase = "stopped" =>
           /\ \A c \in Consumers : cpc[c] = "done"
           /\ Unmarked = 0

\* C16 -- Pending-completion accounting (the claim as stated): in every
\* reachable state, those during and after shutdown included, the pending count
\* is not negative and is the queue's depth plus the events held by consumers
\* that are still running, every removed event being marked done once.
C16_PendingAccounting ==
    /\ unfinished >= 0
    /\ unfinished = Len(queue) + Cardinality(Holding)

\* The queue is drained: it is empty, nothing is pending, and every consumer
\* waits in get().
Drained ==
    /\ queue = <<>>
    /\ unfinished = 0
    /\ \A c \in Consumers : cpc[c] = "get"

\* C17 -- Drain liveness: while the service runs with fair consumers, events
\* keep being removed from a queue that is not empty and keep being marked done
\* while a consumer holds one, so that every accepted event is removed and
\* marked done; once no more events are enqueued the queue becomes empty for
\* good with every consumer waiting in get(); the queue does not stay full,
\* and whenever it is not full a POST of one event is accepted.
C17_DrainLiveness ==
    /\ []<>(queue = <<>>) \/ []<><<Len(queue') < Len(queue)>>_vars
    /\ []<>(Holding = {}) \/ []<><<unfinished' < unfinished>>_vars
    /\ []<><<Len(queue') > Len(queue)>>_vars \/ <>[]Drained
    /\ []<>(Len(queue) < Capacity)
    /\ [](Len(queue) < Capacity =>
             \A d \in CallerDicts :
                 ingest_events(Obj(d), queue, unfinished, now_z).resp.accepted = 1)

\* C17 witness: a full batch was accepted and the consumers have drained it.
C17_Witness ==
    /\ Drained
    /\ fillSeq = -1
    /\ lastResp.status = 200
    /\ lastResp.accepted = Capacity

\* The first n elements of a sequence.
Prefix(sq, n) == SubSeq(sq, 1, Min(n, Len(sq)))

\* C18 -- FIFO and batch contiguity: every step of the service leaves the queue
\* as it is, or gives its head (and nothing else) to one consumer, or appends
\* at its tail, with no consumer moving in that step, the events one request
\* had accepted; a batch of two is appended in submission order, as far as
\* there are free slots.
C18_FifoContiguity ==
    /\ [][\/ queue' = queue
          \/ /\ queue # <<>>
             /\ queue' = Tail(queue)
             /\ \E c \in Consumers :
                    /\ cpc'[c] = "sleep"
                    /\ \A o \in Consumers \ {c} : cpc'[o] = cpc[o]
          \/ /\ Len(queue') > Len(queue)
             /\ SubSeq(queue', 1, Len(queue)) = queue
             /\ cpc' = cpc
             /\ lastResp'.status = 200 =>
                    lastResp'.accepted = Len(queue') - Len(queue)]_vars
    /\ [](\A d1, d2 \in CallerDicts :
             ingest_events(Arr(<<Obj(d1), Obj(d2)>>), queue, unfinished, now_z).queue =
                 queue \o Prefix(<<Defaulted(d1, now_z), Defaulted(d2, now_z)>>,
                                 Capacity - Len(queue)))

\* C18 witness: a consumer holds an event, and behind it a batch of two
\* different events was accepted whole and sits at the tail of the queue.
C18_Witness ==
    /\ Holding # {}
    /\ lastReq.n >= 2
    /\ lastResp.status = 200
    /\ lastResp.accepted = lastReq.n
    /\ Len(queue) >= lastReq.n
    /\ queue[Len(queue)] # queue[Len(queue) - 1]

\* C19 -- Response snapshot consistency: whatever the interleaving with the
\* consumers, a step that answers a request (no consumer moves or marks an
\* event done, the phase and the clock stay) with 200 reports as queued_size
\* the queue's depth before the request's first put plus its accepted count; so
\* accepted <= queued_size <= capacity, and fewer events accepted than
\* submitted means queued_size = capacity.
C19_SnapshotConsistency ==
    /\ [][(/\ cpc' = cpc /\ unfinished' >= unfinished
           /\ phase' = phase /\ clock' = clock
           /\ lastResp'.status = 200) =>
             lastResp'.queued_size = Len(queue) + lastResp'.accepted]_vars
    /\ [](lastResp.status = 200 =>
             /\ lastResp.accepted <= lastResp.queued_size
             /\ lastResp.queued_size <= Capacity
             /\ lastResp.accepted < lastReq.n => lastResp.queued_size = Capacity)

\* C19 witness: while a consumer held an event, a request found one event in
\* the queue and had one accepted.
C19_Witness ==
    /\ Holding # {}
    /\ lastResp.status = 200
    /\ lastResp.accepted >= 1
    /\ lastResp.queued_size > lastResp.accepted
    /\ unfinished > Len(queue)

\* C20 -- Event conservation (the claim as stated): events enter the queue
\* only in a step that answers 200 with that many events accepted, so that the
\* events ever enqueued are the sum of the accepted counts; an event leaves
\* the queue for exactly one consumer, one event at a time.
C20_EventConservation ==
    [][/\ Len(queue') > Len(queue) =>
            /\ lastResp'.status = 200
            /\ lastResp'.accepted = Len(queue') - Len(queue)
       /\ Len(queue') < Len(queue) =>
            /\ queue' = Tail(queue)
            /\ Cardinality({c \in Consumers : cpc'[c] # cpc[c]}) <= 1]_vars

====
